---- MODULE Spec2Model ----
(***************************************************************************)
(* Per-shard update + search pipeline of the vector search engine:         *)
(* LocalShard (update, search, scroll_by, count, retrieve, info), the WAL, *)
(* the bounded update queue, the single UpdateHandler, the SegmentHolder   *)
(* with Original and Proxy segments, and the SegmentsSearcher.             *)
(***************************************************************************)
EXTENDS Integers, Sequences, FiniteSets, TLC

\* ------------------------------------------------------------------ bounds
NumCallers == 2
MaxOps == 3
MaxQueueCap == 2
MaxPoint == 2
MaxScore == 2
MaxLimit == 3
NumPeers == 2
MaxRequests == 2
MaxIds == 3

Callers == 1..NumCallers
PointIds == 1..MaxPoint
SegIds == 1..3
NoCaller == 0

VARIABLES
    wal,            \* the WAL: sequence of operations, op_num = index
    wal_lock,       \* owner of the WAL mutex (NoCaller when free)
    queue,          \* update queue: UpdateSignal::Operation entries in flight
    capacity,       \* capacity the update queue was created with
    segments,       \* the SegmentHolder
    handler,        \* the UpdateHandler: the operation being applied
    applied_log,    \* op_nums in the order the UpdateHandler took them
    fired,          \* op_nums whose completion callback has been invoked
    pc,             \* per caller: position inside LocalShard::update
    call,           \* per caller: operation, wait, permit, operation_id, callback, result
    reader,         \* a reader (search / retrieve) over the holder
    optimizer,      \* the optimizer's position (idle / proxying / swapping)
    search_in,      \* input of one LocalShard::search post-processing step
    locks,          \* the holder and segment reader/writer locks and who holds them
    cluster         \* peers, their shards and the remove_peer request

vars == <<wal, wal_lock, queue, capacity, segments, handler, applied_log, fired, pc, call,
          reader, optimizer, search_in, locks, cluster>>

\* --------------------------------------------------------------- data model
Absent == [present |-> FALSE, version |-> 0, vec |-> 0, payload |-> "none"]
Point(ver, v, pl) == [present |-> TRUE, version |-> ver, vec |-> v, payload |-> pl]
NoPoints == [p \in PointIds |-> Absent]

Segment(pts, type, app) == [points |-> pts, segment_type |-> type, appendable |-> app]
NoProxy == [active |-> FALSE, write |-> NoPoints, deleted |-> {}]

Max(S) == CHOOSE x \in S : \A y \in S : y <= x
Min(S) == CHOOSE x \in S : \A y \in S : x <= y

\* Operations of the WAL
Upsert(ids, v) == [kind |-> "Upsert", ids |-> ids, vec |-> v, payload |-> "none"]
Delete(ids) == [kind |-> "Delete", ids |-> ids, vec |-> 0, payload |-> "none"]
SetPayloadTo(ids, pl) == [kind |-> "SetPayload", ids |-> ids, vec |-> 0, payload |-> pl]
SetPayload(ids) == SetPayloadTo(ids, "red")
Operations ==
    { Upsert({1}, 2), Upsert({1, 2}, 1), Delete({1}), SetPayload({1, 2}) }

\* ------------------------------------------------------- Segment contract
\* (mutant) the version of the point is not compared
NeverStale(rec, op_num) == FALSE
\* an operation whose op_num <= the point's version is a no-op for the point
IsStale(rec, op_num) == rec.present /\ op_num <= rec.version

\* the record a segment holds for a point after one point operation;
\* ok = FALSE is a point failure (NotFound)
SegmentApply(rec, op_num, op) ==
    IF IsStale(rec, op_num) THEN [rec |-> rec, ok |-> TRUE]
    ELSE IF op.kind = "Upsert"
        THEN [rec |-> Point(op_num, op.vec, rec.payload), ok |-> TRUE]
    ELSE IF op.kind = "Delete"
        THEN [rec |-> Absent, ok |-> TRUE]
    ELSE IF rec.present
        THEN [rec |-> Point(op_num, rec.vec, op.payload), ok |-> TRUE]
    ELSE [rec |-> rec, ok |-> FALSE]

\* ------------------------------------------------ LockedSegment (variants)
\* Proxy read for id p: deleted_points masks the wrapped copy, write_segment wins
ProxyRead(wrapped, px, p) ==
    IF px.write[p].present THEN px.write[p]
    ELSE IF p \in px.deleted THEN Absent
    ELSE wrapped.points[p]

\* what a handle (segment id + variant seen when the handle was cloned) reads
HandleRead(h, sid, asProxy, p) ==
    IF asProxy THEN ProxyRead(h.seg[sid], h.proxy[sid], p)
    ELSE h.seg[sid].points[p]

\* the current variant of a member of the holder
MemberRead(h, sid, p) == HandleRead(h, sid, h.proxy[sid].active, p)

\* Proxy write: route to write_segment; an id that exists in wrapped is added
\* to deleted_points together with the write
ProxyWrite(wrapped, px, op_num, op, p) ==
    LET cur == ProxyRead(wrapped, px, p)
        r == SegmentApply(cur, op_num, op)
    IN  IF IsStale(cur, op_num) \/ ~r.ok THEN [px |-> px, ok |-> r.ok]
        ELSE [px |-> [px EXCEPT !.write[p] = r.rec,
                                !.deleted = IF wrapped.points[p].present
                                            THEN @ \cup {p} ELSE @],
              ok |-> TRUE]

\* ------------------------------------------------------------ SegmentHolder
Owners(h, p) == { sid \in h.members : MemberRead(h, sid, p).present }
Appendable(h) ==
    { sid \in h.members : h.proxy[sid].active \/ h.seg[sid].appendable }

\* the segment apply_points picks for an id
SelectSegment(h, p) ==
    LET own == Owners(h, p)
        prox == { sid \in own : h.proxy[sid].active }
    IN  IF prox # {} THEN Max(prox)
        ELSE IF own # {} THEN Max(own)
        ELSE Max(Appendable(h))

\* apply_points for one id: the write under the selected segment's write lock
ApplyPoint(h, op_num, op, p) ==
    LET sid == SelectSegment(h, p) IN
    IF h.proxy[sid].active
    THEN LET w == ProxyWrite(h.seg[sid], h.proxy[sid], op_num, op, p)
         IN  [h |-> [h EXCEPT !.proxy[sid] = w.px], ok |-> w.ok]
    ELSE LET r == SegmentApply(h.seg[sid].points[p], op_num, op)
         IN  [h |-> [h EXCEPT !.seg[sid].points[p] = r.rec], ok |-> r.ok]

\* a point failure records the op_num in failed_operation
RecordOutcome(r, op_num) ==
    IF r.ok THEN r.h
    ELSE [r.h EXCEPT !.failed_operation = @ \cup {op_num}]

\* ------------------------------------------------------------------- state
Idle == [op_num |-> 0, operation |-> Delete({}), todo |-> {}, ok |-> TRUE,
         sender |-> NoCaller]
NoCall == [operation |-> Delete({}), wait |-> FALSE, permit |-> FALSE,
           operation_id |-> 0, callback |-> "none", status |-> "none"]
NoRequest == [offset |-> 0, limit |-> 0, filter |-> "none", exact |-> FALSE]
NoRead == [pc |-> "idle", kind |-> "none", handles |-> {}, todo |-> {},
           seen |-> {}, after |-> {}, result |-> <<>>,
           ids |-> <<>>, request |-> NoRequest]

\* a request without score_threshold
NoThreshold == 0 - 1
NoSearch == [pc |-> "none", segs |-> <<>>, distance |-> <<>>, threshold |-> NoThreshold,
             top |-> 0, merged |-> <<>>, full |-> <<>>, result |-> <<>>]

\* no lock is modelled / no remove_peer request is modelled
NoLocks == [holder |-> <<>>]
NoCluster == [pc |-> "none"]

\* the holder after loading: segment 1 holds point 1 written by op_num 1,
\* segment 2 is the newest appendable segment
InitHolder ==
    [members |-> {1, 2},
     seg |-> [sid \in SegIds |->
                IF sid = 1
                THEN Segment([NoPoints EXCEPT ![1] = Point(1, 1, "none")], "Plain", TRUE)
                ELSE Segment(NoPoints, "Plain", TRUE)],
     proxy |-> [sid \in SegIds |-> NoProxy],
     failed_operation |-> {},
     optimizer_errors |-> FALSE]
InitWal == << Upsert({1}, 1) >>

Init ==
    /\ wal = InitWal
    /\ wal_lock = NoCaller
    /\ queue = <<>>
    /\ capacity \in 1..MaxQueueCap
    /\ segments = InitHolder
    /\ handler = Idle
    /\ applied_log = <<1>>
    /\ fired = {}
    /\ pc = [c \in Callers |-> "idle"]
    /\ call = [c \in Callers |-> NoCall]
    /\ reader = NoRead
    /\ optimizer = "idle"
    /\ search_in = NoSearch
    /\ locks = NoLocks
    /\ cluster = NoCluster

\* ------------------------------------------------------ LocalShard::update
\* permits handed out by reserve() and not yet turned into a message
Permits == Cardinality({ c \in Callers : call[c].permit })
\* (mutant) reserve() hands out a permit whatever the queue holds
PermitAlways == TRUE
\* update_sender.reserve(): a permit is free when queued messages plus
\* outstanding permits are below the channel capacity
PermitAvailable == Len(queue) + Permits < capacity
\* (mutant) the WAL write and the send are not serialised by the mutex
WalLockIgnored == TRUE
\* self.wal.lock(): the mutex is free
WalLockFree == wal_lock = NoCaller
\* status of the Ok(UpdateResult) the call returns
ResultStatus(wait) == IF wait THEN "Completed" ELSE "Acknowledged"
\* (mutant) the receiver is not awaited
CallbackNotAwaited(c) == TRUE
\* what the awaited receiver yields: the callback has been sent
CallbackReady(c) == call[c].callback \in {"ok", "err"}

InFlightBeforeWrite == Cardinality({ c \in Callers : pc[c] \in {"reserve", "lock", "write"} })

\* a client calls update(operation, wait); the oneshot channel is made if wait
Call(c) ==
    /\ pc[c] = "idle"
    /\ Len(wal) + InFlightBeforeWrite < MaxOps
    /\ \E op \in Operations, w \in BOOLEAN :
        call' = [call EXCEPT ![c] = [NoCall EXCEPT !.operation = op, !.wait = w,
                                     !.callback = IF w THEN "pending" ELSE "none"]]
    /\ pc' = [pc EXCEPT ![c] = "reserve"]
    /\ UNCHANGED <<locks, cluster, wal, wal_lock, queue, capacity, segments, handler, applied_log, fired,
                   reader, optimizer, search_in>>

\* let channel_permit = update_sender.reserve().await?
Reserve(c) ==
    /\ pc[c] = "reserve"
    /\ PermitAvailable
    /\ call' = [call EXCEPT ![c].permit = TRUE]
    /\ pc' = [pc EXCEPT ![c] = "lock"]
    /\ UNCHANGED <<locks, cluster, wal, wal_lock, queue, capacity, segments, handler, applied_log, fired,
                   reader, optimizer, search_in>>

\* let mut wal_lock = self.wal.lock()
LockWal(c) ==
    /\ pc[c] = "lock"
    /\ WalLockFree
    /\ wal_lock' = c
    /\ pc' = [pc EXCEPT ![c] = "write"]
    /\ UNCHANGED <<locks, cluster, wal, queue, capacity, segments, handler, applied_log, fired, call,
                   reader, optimizer, search_in>>

\* let operation_id = wal_lock.write(&operation)?  -- the write succeeds
WalWrite(c) ==
    /\ pc[c] = "write"
    /\ wal' = Append(wal, call[c].operation)
    /\ call' = [call EXCEPT ![c].operation_id = Len(wal) + 1]
    /\ pc' = [pc EXCEPT ![c] = "send"]
    /\ UNCHANGED <<locks, cluster, wal_lock, queue, capacity, segments, handler, applied_log,
                   fired, reader, optimizer, search_in>>

\* (mutant) the reserved permit outlives the failed call
PermitKept(c) == call[c].permit
\* whether the caller still holds its permit once `?` has returned the error:
\* channel_permit is dropped with the other locals, its slot is free again
PermitOnError(c) == FALSE

\* wal_lock.write(&operation)? -- the write fails: `?` returns the error and
\* drops the WAL guard, the permit and the callback sender
WalWriteFail(c) ==
    /\ pc[c] = "write"
    /\ wal_lock' = IF wal_lock = c THEN NoCaller ELSE wal_lock
    /\ call' = [call EXCEPT ![c].permit = PermitOnError(c), ![c].callback = "none",
                            ![c].status = "WalError"]
    /\ pc' = [pc EXCEPT ![c] = "done"]
    /\ UNCHANGED <<locks, cluster, wal, queue, capacity, segments, handler, applied_log, fired,
                   reader, optimizer, search_in>>

\* (mutant) the signal carries the WAL length before the write
SignalOpNumBeforeWrite(c) == call[c].operation_id - 1
\* op_num: operation_id
SignalOpNum(c) == call[c].operation_id

\* channel_permit.send(UpdateSignal::Operation(OperationData { .. }))
Send(c) ==
    /\ pc[c] = "send"
    /\ queue' = Append(queue, [op_num |-> SignalOpNum(c),
                               operation |-> call[c].operation,
                               sender |-> IF call[c].wait THEN c ELSE NoCaller])
    /\ call' = [call EXCEPT ![c].permit = FALSE]
    /\ pc' = [pc EXCEPT ![c] = "unlock"]
    /\ UNCHANGED <<locks, cluster, wal, wal_lock, capacity, segments, handler, applied_log, fired,
                   reader, optimizer, search_in>>

\* end of the block: the WAL guard is dropped; without a receiver the call
\* returns Acknowledged right away
Unlock(c) ==
    /\ pc[c] = "unlock"
    /\ wal_lock' = IF wal_lock = c THEN NoCaller ELSE wal_lock
    /\ IF call[c].wait
       THEN /\ pc' = [pc EXCEPT ![c] = "await"]
            /\ call' = call
       ELSE /\ pc' = [pc EXCEPT ![c] = "done"]
            /\ call' = [call EXCEPT ![c].status = ResultStatus(FALSE)]
    /\ UNCHANGED <<locks, cluster, wal, queue, capacity, segments, handler, applied_log, fired,
                   reader, optimizer, search_in>>

\* let _res = receiver.await??
Await(c) ==
    /\ pc[c] = "await"
    /\ CallbackReady(c)
    /\ call' = [call EXCEPT ![c].status =
                    IF call[c].callback = "err" THEN "ApplyError" ELSE ResultStatus(TRUE)]
    /\ pc' = [pc EXCEPT ![c] = "done"]
    /\ UNCHANGED <<locks, cluster, wal, wal_lock, queue, capacity, segments, handler, applied_log, fired,
                   reader, optimizer, search_in>>

\* (mutant) cancelling the wait takes the caller's signal back out of the queue
QueueRolledBack(c) == SelectSeq(queue, LAMBDA m : m.sender # c)
\* the queue after the caller stopped waiting: the signal was sent before the
\* await and stays where it is
QueueAfterCancel(c) == queue

\* the caller cancels awaiting the callback: the future is dropped at
\* receiver.await, only its locals (the receiver) go away
Cancel(c) ==
    /\ pc[c] = "await"
    /\ queue' = QueueAfterCancel(c)
    /\ pc' = [pc EXCEPT ![c] = "idle"]
    /\ call' = [call EXCEPT ![c] = NoCall]
    /\ UNCHANGED <<locks, cluster, wal, wal_lock, capacity, segments, handler, applied_log,
                   fired, reader, optimizer, search_in>>

\* the caller has its response and may call again
Return(c) ==
    /\ pc[c] = "done"
    /\ pc' = [pc EXCEPT ![c] = "idle"]
    /\ call' = [call EXCEPT ![c] = NoCall]
    /\ UNCHANGED <<locks, cluster, wal, wal_lock, queue, capacity, segments, handler, applied_log, fired,
                   reader, optimizer, search_in, locks, cluster>>

\* ------------------------------------------------------------ UpdateHandler
HolderWriteLocked == optimizer \in {"proxy_locked", "swap_locked", "swap_removed"}

\* the single consumer takes the next UpdateSignal::Operation
Recv ==
    /\ handler.op_num = 0
    /\ queue # <<>>
    /\ handler' = [op_num |-> Head(queue).op_num, operation |-> Head(queue).operation,
                   todo |-> Head(queue).operation.ids, ok |-> TRUE,
                   sender |-> Head(queue).sender]
    /\ queue' = Tail(queue)
    /\ applied_log' = Append(applied_log, Head(queue).op_num)
    /\ UNCHANGED <<locks, cluster, wal, wal_lock, capacity, segments, fired, pc, call, reader, optimizer, search_in>>

\* apply_points for the next id of the batch
ApplyNext ==
    /\ handler.op_num # 0
    /\ handler.todo # {}
    /\ ~HolderWriteLocked
    /\ LET p == Min(handler.todo)
           r == ApplyPoint(segments, handler.op_num, handler.operation, p)
       IN  /\ segments' = RecordOutcome(r, handler.op_num)
           /\ handler' = [handler EXCEPT !.todo = @ \ {p}, !.ok = @ /\ r.ok]
    /\ UNCHANGED <<locks, cluster, wal, wal_lock, queue, capacity, applied_log, fired, pc, call, reader,
                   optimizer, search_in>>

\* the operation is applied: invoke the callback with the overall outcome
Finish ==
    /\ handler.op_num # 0
    /\ handler.todo = {}
    /\ handler' = Idle
    /\ IF handler.sender # NoCaller
       THEN /\ fired' = fired \cup {handler.op_num}
            /\ call' = [call EXCEPT ![handler.sender].callback =
                            IF @ = "pending" /\ call[handler.sender].operation_id = handler.op_num
                            THEN (IF handler.ok THEN "ok" ELSE "err") ELSE @]
       ELSE UNCHANGED <<fired, call>>
    /\ UNCHANGED <<locks, cluster, wal, wal_lock, queue, capacity, segments, applied_log, pc, reader,
                   optimizer, search_in>>

\* --------------------------------------------------------- SegmentsSearcher
ScoredPoint(p, rec) == [id |-> p, version |-> rec.version, score |-> rec.vec]

\* search order: score descending, PointId ascending among equal scores
\* (two copies of one point with one score: the newer first)
Better(a, b) ==
    \/ a.score > b.score
    \/ (a.score = b.score /\ a.id < b.id)
    \/ (a.score = b.score /\ a.id = b.id /\ a.version > b.version)

RECURSIVE SortScored(_)
SortScored(S) ==
    IF S = {} THEN <<>>
    ELSE LET b == CHOOSE x \in S : \A y \in S \ {x} : Better(x, y)
         IN  <<b>> \o SortScored(S \ {b})

Take(seq, k) == SubSeq(seq, 1, IF Len(seq) < k THEN Len(seq) ELSE k)
Range(seq) == { seq[i] : i \in 1..Len(seq) }

\* one segment's answer to a search: its top candidates, best first
SegmentSearch(pts, top) ==
    Take(SortScored({ ScoredPoint(p, pts[p]) : p \in { q \in PointIds : pts[q].present } }), top)

\* (mutant) the merge keeps every copy of a point
KeepDuplicates(S) == S
\* deduplicate by PointId keeping the highest score
DedupScored(S) ==
    { x \in S : \A y \in S : y.id = x.id =>
        (y.score < x.score \/ (y.score = x.score /\ y.version <= x.version)) }

\* merge across segments: concatenate, deduplicate, sort, keep the top
MergeSearch(results, top) ==
    Take(SortScored(DedupScored(UNION { Range(r) : r \in results })), top)

\* retrieve: for each id keep the copy with the highest version
RetrieveMerge(maps, ids) ==
    [p \in ids |->
        LET found == { m[p] : m \in { n \in maps : n[p].present } }
        IN  IF found = {} THEN Absent
            ELSE CHOOSE r \in found : \A o \in found : o.version <= r.version]

\* the points a handle shows
HandlePoints(h, hd) ==
    [p \in DOMAIN h.seg[hd[1]].points |-> HandleRead(h, hd[1], hd[2], p)]

\* ------------------------------------------------------------------ readers
\* (mutant) the membership is read without the holder lock
ReadUnlocked == TRUE
\* the holder's read lock can be taken: no exclusive writer holds it
HolderReadable == ~HolderWriteLocked

\* snapshot of the holder's membership: clone the handles under the read lock
Snapshot(h) == { <<sid, h.proxy[sid].active>> : sid \in h.members }

ReadStart ==
    /\ reader.pc = "idle"
    /\ HolderReadable
    /\ \E k \in {"search", "retrieve"} :
        reader' = [NoRead EXCEPT !.pc = "reading", !.kind = k,
                                 !.handles = Snapshot(segments),
                                 !.todo = Snapshot(segments),
                                 !.seen = {}, !.after = fired]
    /\ UNCHANGED <<locks, cluster, wal, wal_lock, queue, capacity, segments, handler, applied_log,
                   fired, pc, call, optimizer, search_in>>

\* one per-segment task, under the segment's read lock
ReadSegment ==
    /\ reader.pc = "reading"
    /\ \E hd \in reader.todo :
        reader' = [reader EXCEPT !.todo = @ \ {hd},
                                 !.seen = @ \cup {HandlePoints(segments, hd)}]
    /\ UNCHANGED <<locks, cluster, wal, wal_lock, queue, capacity, segments, handler, applied_log,
                   fired, pc, call, optimizer, search_in>>

ReadResult(kind, seen) ==
    IF kind = "search"
    THEN MergeSearch({ SegmentSearch(m, MaxPoint) : m \in seen }, MaxPoint)
    ELSE RetrieveMerge(seen, PointIds)

ReadFinish ==
    /\ reader.pc = "reading"
    /\ reader.kind \in {"search", "retrieve"}
    /\ reader.todo = {}
    /\ reader' = [reader EXCEPT !.pc = "done", !.seen = {},
                                !.result = ReadResult(reader.kind, reader.seen)]
    /\ UNCHANGED <<locks, cluster, wal, wal_lock, queue, capacity, segments, handler, applied_log,
                   fired, pc, call, optimizer, search_in>>

ReadReset ==
    /\ reader.pc = "done"
    /\ reader' = NoRead
    /\ UNCHANGED <<locks, cluster, wal, wal_lock, queue, capacity, segments, handler, applied_log,
                   fired, pc, call, optimizer, search_in>>

ReadNext == ReadStart \/ ReadSegment \/ ReadFinish \/ ReadReset

\* a reader that keeps the holder's read lock while it visits the segments
\* (scroll_by's id collection, count, info)
HolderReadLocked == reader.pc = "scanning"

\* ---------------------------------------------------- optimizer and proxies
\* the segment the optimizer rebuilds, and the id of its replacement
Target(h) == Min(h.members)
FreshId == Max(SegIds)

\* the holder with segment sid wrapped in a fresh ProxySegment
ProxyOver(h, sid) ==
    [h EXCEPT !.proxy[sid] = [active |-> TRUE,
                              write |-> [p \in DOMAIN h.seg[sid].points |-> Absent],
                              deleted |-> {}]]

\* proxy(old_id): wrap the segment in place under holder exclusion
ProxyWrap ==
    /\ optimizer = "idle"
    /\ ~HolderReadLocked
    /\ segments' = ProxyOver(segments, Target(segments))
    /\ optimizer' = "proxying"
    /\ UNCHANGED <<locks, cluster, wal, wal_lock, queue, capacity, handler, applied_log, fired,
                   pc, call, reader, search_in>>

\* the optimized segment: wrapped minus deleted_points, plus write_segment
BuildOptimized(h, sid) ==
    Segment([p \in PointIds |-> ProxyRead(h.seg[sid], h.proxy[sid], p)], "Indexed", FALSE)

\* swap(old_ids, new_segment): take the exclusive holder lock
SwapLock ==
    /\ optimizer = "proxying"
    /\ ~HolderReadLocked
    /\ optimizer' = "swap_locked"
    /\ UNCHANGED <<locks, cluster, wal, wal_lock, queue, capacity, segments, handler, applied_log,
                   fired, pc, call, reader, search_in>>

\* ... remove old_ids
SwapRemove ==
    /\ optimizer = "swap_locked"
    /\ LET old == Target(segments) IN
        /\ segments' = [segments EXCEPT
                            !.seg[FreshId] = BuildOptimized(segments, old),
                            !.members = @ \ {old}]
    /\ optimizer' = "swap_removed"
    /\ UNCHANGED <<locks, cluster, wal, wal_lock, queue, capacity, handler, applied_log, fired,
                   pc, call, reader, search_in>>

\* ... insert new_segment and release the lock
SwapInsert ==
    /\ optimizer = "swap_removed"
    /\ segments' = [segments EXCEPT !.members = @ \cup {FreshId}]
    /\ optimizer' = "done"
    /\ UNCHANGED <<locks, cluster, wal, wal_lock, queue, capacity, handler, applied_log, fired,
                   pc, call, reader, search_in>>

OptimizerNext == ProxyWrap \/ SwapLock \/ SwapRemove \/ SwapInsert

UpdateNext ==
    \/ \E c \in Callers : Call(c)
    \/ \E c \in Callers : Reserve(c)
    \/ \E c \in Callers : LockWal(c)
    \/ \E c \in Callers : WalWrite(c)
    \/ \E c \in Callers : WalWriteFail(c)
    \/ \E c \in Callers : Send(c)
    \/ \E c \in Callers : Unlock(c)
    \/ \E c \in Callers : Await(c)
    \/ \E c \in Callers : Return(c)
    \/ Recv
    \/ ApplyNext
    \/ Finish

\* update with one caller: the holder, the optimizer and the readers
SingleUpdateNext ==
    \/ Call(1) \/ Reserve(1) \/ LockWal(1) \/ WalWrite(1) \/ WalWriteFail(1)
    \/ Send(1) \/ Unlock(1) \/ Await(1) \/ Return(1)
    \/ Recv \/ ApplyNext \/ Finish


\* the update pipeline alone
SpecUpdate == Init /\ [][UpdateNext]_vars

\* the update pipeline with callers that may cancel their wait; the applier is
\* one task that runs whenever it has work, and the synchronous code between
\* the WAL write and the send runs to its end
NextLive == UpdateNext \/ \E c \in Callers : Cancel(c)
SpecLive ==
    /\ Init /\ [][NextLive]_vars
    /\ WF_vars(Recv) /\ WF_vars(ApplyNext) /\ WF_vars(Finish)
    /\ \A c \in Callers : WF_vars(Send(c))

\* one caller, the UpdateHandler and the optimizer's proxy handoff
NextOptimize == SingleUpdateNext \/ OptimizerNext
SpecOptimize == Init /\ [][NextOptimize]_vars

NextHolder == SingleUpdateNext \/ ReadNext \/ OptimizerNext
SpecHolder == Init /\ [][NextHolder]_vars

\* ------------------------------------------------------ Distance contract
Scores == 0..MaxScore
\* a distance is given by its postprocess_score: monotone non-decreasing
Distances == { f \in [Scores -> Scores] : \A a, b \in Scores : a <= b => f[a] <= f[b] }
PostprocessScore(distance, score) == distance[score]
CheckThreshold(distance, score, threshold) == score >= threshold

\* ------------------------------------------------------ LocalShard::search
RECURSIVE TakeWhilePasses(_, _, _)
TakeWhilePasses(seq, distance, threshold) ==
    IF seq = <<>> \/ ~CheckThreshold(distance, Head(seq).score, threshold) THEN <<>>
    ELSE <<Head(seq)>> \o TakeWhilePasses(Tail(seq), distance, threshold)

\* scored_point.score = distance.postprocess_score(scored_point.score)
Processed(vector_res, distance) ==
    [i \in 1..Len(vector_res) |->
        [vector_res[i] EXCEPT !.score = PostprocessScore(distance, @)]]

\* (mutant) the scores are returned as the segments gave them
SearchWithoutPostprocess(vector_res, distance, threshold) ==
    IF threshold # NoThreshold
    THEN TakeWhilePasses(vector_res, distance, threshold)
    ELSE vector_res
\* (mutant) the threshold is checked on the raw score, before post-processing
SearchThresholdOnRaw(vector_res, distance, threshold) ==
    IF threshold # NoThreshold
    THEN Processed(TakeWhilePasses(vector_res, distance, threshold), distance)
    ELSE Processed(vector_res, distance)
\* one request of the batch: post-process, then take_while check_threshold
LocalShardSearch(vector_res, distance, threshold) ==
    IF threshold # NoThreshold
    THEN TakeWhilePasses(Processed(vector_res, distance), distance, threshold)
    ELSE Processed(vector_res, distance)

\* a segment whose points have the given raw scores (below 0: no such point)
ScoredSegment(scores, ver) ==
    [p \in PointIds |-> IF scores[p] < 0 THEN Absent ELSE Point(ver, scores[p], "none")]

\* a search request over two segments: any raw scores, any distance, with or
\* without score_threshold
InitSearch ==
    /\ wal = InitWal
    /\ wal_lock = NoCaller
    /\ queue = <<>>
    /\ capacity = 1
    /\ segments = InitHolder
    /\ handler = Idle
    /\ applied_log = <<1>>
    /\ fired = {}
    /\ pc = [c \in Callers |-> "idle"]
    /\ call = [c \in Callers |-> NoCall]
    /\ reader = NoRead
    /\ optimizer = "idle"
    /\ locks = NoLocks
    /\ cluster = NoCluster
    /\ \E s1, s2 \in [PointIds -> {NoThreshold} \cup Scores], d \in Distances,
          t \in {NoThreshold} \cup Scores, k \in 1..MaxPoint :
            search_in = [NoSearch EXCEPT !.pc = "request",
                            !.segs = <<ScoredSegment(s1, 1), ScoredSegment(s2, 2)>>,
                            !.distance = d, !.threshold = t, !.top = k]

\* SegmentsSearcher::search(self.segments(), request, ..)
SearchSegments ==
    /\ search_in.pc = "request"
    /\ search_in' = [search_in EXCEPT !.pc = "merged",
            !.merged = MergeSearch({ SegmentSearch(search_in.segs[i], search_in.top)
                                        : i \in 1..Len(search_in.segs) }, search_in.top)]
    /\ UNCHANGED <<locks, cluster, wal, wal_lock, queue, capacity, segments, handler,
                   applied_log, fired, pc, call, reader, optimizer>>

\* the post-processing of LocalShard::search, with and without the threshold
SearchPostprocess ==
    /\ search_in.pc = "merged"
    /\ search_in' = [search_in EXCEPT !.pc = "done",
            !.full = LocalShardSearch(search_in.merged, search_in.distance, NoThreshold),
            !.result = LocalShardSearch(search_in.merged, search_in.distance,
                                        search_in.threshold)]
    /\ UNCHANGED <<locks, cluster, wal, wal_lock, queue, capacity, segments, handler,
                   applied_log, fired, pc, call, reader, optimizer>>

NextSearch == SearchSegments \/ SearchPostprocess
SpecSearch == InitSearch /\ [][NextSearch]_vars

\* ------------------------------------------------------------ WAL replay
\* the holder before any operation was applied
EmptyHolder ==
    [InitHolder EXCEPT !.seg = [sid \in SegIds |-> Segment(NoPoints, "Plain", TRUE)]]

\* one operation applied to every id of its batch, in id order
RECURSIVE ApplyIds(_, _, _, _)
ApplyIds(h, op_num, op, ids) ==
    IF ids = {} THEN h
    ELSE LET p == Min(ids)
         IN  ApplyIds(RecordOutcome(ApplyPoint(h, op_num, op, p), op_num),
                      op_num, op, ids \ {p})

\* the WAL entries from..to applied in op_num order
RECURSIVE Replay(_, _, _, _)
Replay(h, log, from, to) ==
    IF from > to THEN h
    ELSE Replay(ApplyIds(h, from, log[from], log[from].ids), log, from + 1, to)

\* what a read of point p shows on a holder
Visible(h, p) ==
    LET own == Owners(h, p)
    IN  IF own = {} THEN Absent
        ELSE MemberRead(h, CHOOSE sid \in own :
                            \A o \in own : MemberRead(h, o, p).version
                                            <= MemberRead(h, sid, p).version, p)

\* op_nums whose application to point p is complete
AppliedTo(p) ==
    { n \in Range(applied_log) :
        /\ n \in 1..Len(wal)
        /\ p \in wal[n].ids
        /\ (n = handler.op_num => p \notin handler.todo) }

\* op_nums the UpdateHandler has completely applied
Applied == { n \in Range(applied_log) : n # handler.op_num }

\* ===================================================================== C1
StrictlyIncreasing(seq) == \A i, j \in 1..Len(seq) : i < j => seq[i] < seq[j]
QueuedOpNums == [i \in 1..Len(queue) |-> queue[i].op_num]

\* C1: for any interleaving of concurrent update callers, the UpdateHandler
\* takes operations in strictly increasing op_num order: the update queue holds
\* its signals in the order of the op_nums the WAL assigned, and every queued
\* op_num is larger than every op_num already taken.
C1_AppliedInOpNumOrder ==
    /\ StrictlyIncreasing(applied_log)
    /\ StrictlyIncreasing(QueuedOpNums)
    /\ \A i \in 1..Len(queue), j \in 1..Len(applied_log) :
            applied_log[j] < queue[i].op_num

\* two callers race: one has written and sent under the WAL mutex while the
\* other holds a permit and waits for the mutex
C1_Witness ==
    \E c1, c2 \in Callers :
        /\ c1 # c2
        /\ pc[c1] = "unlock" /\ pc[c2] = "lock"
        /\ queue # <<>>

\* ===================================================================== C3
Returned(c) == pc[c] = "done"

\* C3: an update that returns Ok with wait = true returns Completed, and only
\* after the callback for its op_num was invoked; with wait = false it returns
\* Acknowledged once the operation is in the WAL and enqueued; in both cases
\* operation_id is the op_num at which the WAL holds the operation.
C3_UpdateResult ==
    \A c \in Callers :
        (Returned(c) /\ call[c].status \in {"Completed", "Acknowledged"}) =>
            /\ call[c].status = (IF call[c].wait THEN "Completed" ELSE "Acknowledged")
            /\ call[c].operation_id \in 1..Len(wal)
            /\ wal[call[c].operation_id] = call[c].operation
            /\ \A d \in Callers \ {c} :
                    pc[d] \in {"send", "unlock", "await", "done"} /\ call[d].status # "WalError"
                        => call[d].operation_id # call[c].operation_id
            /\ call[c].status = "Completed" =>
                    call[c].operation_id \in fired /\ call[c].operation_id \in Applied
            /\ call[c].status = "Acknowledged" =>
                    \/ call[c].operation_id \in Range(QueuedOpNums)
                    \/ call[c].operation_id \in Range(applied_log)

\* one caller has Completed while another has Acknowledged an operation that
\* is still waiting in the queue
C3_Witness ==
    \E c1, c2 \in Callers :
        /\ Returned(c1) /\ call[c1].status = "Completed"
        /\ Returned(c2) /\ call[c2].status = "Acknowledged"
        /\ call[c2].operation_id \in Range(QueuedOpNums)

\* ===================================================================== C4
\* C4: every caller between reserve() and send() holds a permit, so the
\* operations written to the WAL and not yet taken by the applier never exceed
\* the queue capacity, and those not yet completely applied never exceed the
\* capacity plus the one apply in flight.
C4_BackPressure ==
    /\ \A c \in Callers : pc[c] \in {"lock", "write", "send"} => call[c].permit
    /\ Len(queue) + Permits <= capacity
    /\ Len(wal) - Len(applied_log) <= capacity
    /\ Len(wal) - Cardinality(Applied) <= capacity + 1

\* the queue is full and a producer is held back at reserve(), with nothing of
\* its operation in the WAL
C4_Witness ==
    \E c \in Callers :
        /\ pc[c] = "reserve" /\ ~PermitAvailable
        /\ Len(wal) - Len(applied_log) = capacity
        /\ Len(queue) = capacity

\* ===================================================================== C5
\* C5: every point present in the shard carries as version the largest op_num
\* among the operations applied to it, and that version is at most the WAL
\* head.
C5_VersionIsMaxOpNum ==
    \A p \in PointIds : \A sid \in Owners(segments, p) :
        /\ AppliedTo(p) # {}
        /\ MemberRead(segments, sid, p).version = Max(AppliedTo(p))
        /\ MemberRead(segments, sid, p).version <= Len(wal)

\* a point rewritten through a proxy: several operations affected it and its
\* live copy sits in the proxy's write_segment
C5_Witness ==
    \E p \in PointIds : \E sid \in Owners(segments, p) :
        /\ segments.proxy[sid].active
        /\ segments.proxy[sid].write[p].present
        /\ Cardinality(AppliedTo(p)) >= 2
        /\ segments.proxy[sid].write[p].version = Max(AppliedTo(p))

\* ===================================================================== C6
SameSegments(a, b) == a.members = b.members /\ a.seg = b.seg /\ a.proxy = b.proxy

\* C6: an operation whose op_num is at most the version of a point leaves the
\* holder unchanged for that point; replaying the applied WAL from any position
\* on top of the state it produced, and applying any prefix of the WAL twice,
\* give the segment state of applying it once.
C6_IdempotentReplay ==
    /\ \A p \in PointIds, op \in Operations, n \in 1..Len(wal) :
            (Visible(segments, p).present /\ n <= Visible(segments, p).version
                /\ ~HolderWriteLocked)
                => ApplyPoint(segments, n, op, p) = [h |-> segments, ok |-> TRUE]
    /\ (handler.op_num = 0 /\ ~HolderWriteLocked) =>
            \A k \in 1..Len(applied_log) :
                SameSegments(Replay(segments, wal, k, Len(applied_log)), segments)
    /\ \A k \in 1..Len(wal) :
            LET once == Replay(EmptyHolder, wal, 1, k)
            IN  SameSegments(Replay(once, wal, 1, k), once)

\* the applied WAL holds an upsert of a point followed by operations on it, and
\* the point lives on at a later version
C6_Witness ==
    /\ handler.op_num = 0
    /\ Len(applied_log) >= 3
    /\ \E p \in PointIds :
        /\ Visible(segments, p).present
        /\ Visible(segments, p).version >= 2
        /\ Cardinality(AppliedTo(p)) >= 2

\* ===================================================================== C7
ResultIds == [i \in 1..Len(reader.result) |-> reader.result[i].id]

\* C7: a search that runs while updates and the optimizer's proxy handoff go
\* on never returns one PointId twice.
C7_NoDuplicateIds ==
    (reader.pc = "done" /\ reader.kind = "search") =>
        \A i, j \in 1..Len(reader.result) : i # j => ResultIds[i] # ResultIds[j]

\* a search over a proxy returns, once, a point that exists both in the wrapped
\* segment and in the proxy's write_segment
C7_Witness ==
    /\ reader.pc = "done" /\ reader.kind = "search"
    /\ optimizer = "proxying"
    /\ \E hd \in reader.handles : \E p \in PointIds :
        /\ hd[2]
        /\ segments.seg[hd[1]].points[p].present
        /\ segments.proxy[hd[1]].write[p].present
        /\ p \in Range(ResultIds)

\* ===================================================================== C8
SnapshotIds == { hd[1] : hd \in reader.handles }
OldId == Min(InitHolder.members)
NewId == FreshId

\* C8: every membership snapshot a reader takes holds either the old segment
\* and not the new one, or the new one and not the old: never both, never
\* neither.
C8_SwapAtomic ==
    reader.pc # "idle" =>
        \/ (OldId \in SnapshotIds /\ NewId \notin SnapshotIds)
        \/ (NewId \in SnapshotIds /\ OldId \notin SnapshotIds)

\* a reader still works on its snapshot of the proxy after the swap replaced it
C8_Witness ==
    /\ reader.pc = "reading"
    /\ optimizer = "done"
    /\ <<OldId, TRUE>> \in reader.handles
    /\ NewId \in segments.members /\ OldId \notin segments.members

\* ===================================================================== C9
SearchDone == search_in.pc = "done"

\* C9 as stated: the returned list is sorted by final score descending and,
\* among equal final scores, by ascending PointId.
C9_SortedByFinalScoreThenId ==
    SearchDone =>
        \A i, j \in 1..Len(search_in.full) : i < j =>
            \/ search_in.full[i].score > search_in.full[j].score
            \/ /\ search_in.full[i].score = search_in.full[j].score
               /\ search_in.full[i].id < search_in.full[j].id

\* C9 amended: the returned list is the merged raw-score order (raw score
\* descending, ascending PointId among equal raw scores) with every score
\* post-processed; final scores never increase along the list, and points
\* whose raw scores were equal are in ascending PointId order.
C9_MergedOrderPostprocessed ==
    SearchDone =>
        /\ Len(search_in.full) = Len(search_in.merged)
        /\ \A i \in 1..Len(search_in.full) :
            /\ search_in.full[i].id = search_in.merged[i].id
            /\ search_in.full[i].score =
                    PostprocessScore(search_in.distance, search_in.merged[i].score)
        /\ \A i, j \in 1..Len(search_in.full) : i < j =>
            /\ search_in.full[i].score >= search_in.full[j].score
            /\ search_in.merged[i].score = search_in.merged[j].score
                    => search_in.full[i].id < search_in.full[j].id

\* post-processing made two different raw scores equal, and the two points
\* stand in raw-score order, the larger PointId first
C9_Witness ==
    /\ SearchDone
    /\ \E i, j \in 1..Len(search_in.full) :
        /\ i < j
        /\ search_in.full[i].score = search_in.full[j].score
        /\ search_in.merged[i].score > search_in.merged[j].score
        /\ search_in.full[i].id > search_in.full[j].id

\* ==================================================================== C10
Passes(sp) == CheckThreshold(search_in.distance, sp.score, search_in.threshold)

\* C10: with a score_threshold the result is a prefix of the result without
\* one, cut at the first point whose post-processed score fails
\* check_threshold: every returned point passes and no passing point is left
\* out.
C10_ThresholdPrefix ==
    (SearchDone /\ search_in.threshold # NoThreshold) =>
        /\ Len(search_in.result) <= Len(search_in.full)
        /\ \A i \in 1..Len(search_in.result) :
            /\ search_in.result[i] = search_in.full[i]
            /\ Passes(search_in.result[i])
        /\ Len(search_in.result) < Len(search_in.full)
                => ~Passes(search_in.full[Len(search_in.result) + 1])
        /\ \A i \in 1..Len(search_in.full) :
                Passes(search_in.full[i]) => i <= Len(search_in.result)

\* the threshold cuts a proper, non-empty prefix of post-processed scores that
\* differ from the raw ones
C10_Witness ==
    /\ SearchDone /\ search_in.threshold # NoThreshold
    /\ Len(search_in.result) >= 1
    /\ Len(search_in.result) < Len(search_in.full)
    /\ \E i \in 1..Len(search_in.full) :
            search_in.full[i].score # search_in.merged[i].score

\* ------------------------------------------------- LocalShard::retrieve(ids)
\* the ids the segments of a holder are defined over
HolderIds(h) == UNION { DOMAIN h.seg[sid].points : sid \in h.members }

\* (mutant) of the copies the segments returned, the one with the lowest
\* version is kept
LowestVersion(found) ==
    IF found = {} THEN <<>>
    ELSE << CHOOSE r \in found : \A o \in found : r.version <= o.version >>
\* of the copies the segments returned for one id, the one with the highest
\* version; nothing when no segment holds the id
HighestVersion(found) ==
    IF found = {} THEN <<>>
    ELSE << CHOOSE r \in found : \A o \in found : o.version <= r.version >>

Record(p, rec) ==
    [id |-> p, version |-> rec.version, vec |-> rec.vec, payload |-> rec.payload]

\* SegmentsSearcher::retrieve: for each id of the request, in the order of the
\* request, the record found for it; an id no segment holds gives no record
RECURSIVE RetrieveRecords(_, _)
RetrieveRecords(maps, ids) ==
    IF ids = <<>> THEN <<>>
    ELSE LET p == Head(ids)
             kept == HighestVersion({ m[p] : m \in { n \in maps : n[p].present } })
         IN  (IF kept = <<>> THEN <<>> ELSE << Record(p, kept[1]) >>)
                \o RetrieveRecords(maps, Tail(ids))

\* points.sort_by_key(|point| point.id): a stable sort by id
RECURSIVE SortRecords(_)
SortRecords(recs) ==
    IF recs = <<>> THEN <<>>
    ELSE LET i == CHOOSE k \in 1..Len(recs) :
                    /\ \A j \in 1..Len(recs) : recs[k].id <= recs[j].id
                    /\ \A j \in 1..(k - 1) : recs[j].id # recs[k].id
         IN  <<recs[i]>> \o SortRecords(SubSeq(recs, 1, i - 1) \o SubSeq(recs, i + 1, Len(recs)))

\* the ids of a request without the later mentions of an id
RECURSIVE FirstMentions(_)
FirstMentions(ids) ==
    IF ids = <<>> THEN <<>>
    ELSE <<Head(ids)>> \o FirstMentions(SelectSeq(Tail(ids), LAMBDA p : p # Head(ids)))

\* what SegmentsSearcher::retrieve can hand back: the records in the order of
\* the request; for an id the request names more than once, one record per
\* mention or one record for the id (neither is excluded by what is known of
\* the searcher)
RetrieveOutcomes(maps, ids) ==
    { RetrieveRecords(maps, ids), RetrieveRecords(maps, FirstMentions(ids)) }

\* the requests: lists of ids, in any order and with repetitions
IdLists(S) == UNION { [1..n -> S] : n \in 0..MaxIds }

\* retrieve(request.ids): snapshot the handles, then ask every segment
RetrieveCall ==
    /\ reader.pc = "idle"
    /\ HolderReadable
    /\ \E ids \in IdLists(HolderIds(segments)) :
        reader' = [NoRead EXCEPT !.pc = "reading", !.kind = "retrieve_ids",
                                 !.ids = ids,
                                 !.handles = Snapshot(segments),
                                 !.todo = Snapshot(segments),
                                 !.after = fired]
    /\ UNCHANGED <<locks, cluster, wal, wal_lock, queue, capacity, segments, handler,
                   applied_log, fired, pc, call, optimizer, search_in>>

\* all segments answered: the records in request order; scroll_by then sorts
\* them by id, retrieve returns them as they are
RetrieveFinish ==
    /\ reader.pc = "reading"
    /\ reader.kind \in {"retrieve_ids", "scroll"}
    /\ reader.todo = {}
    /\ \E points \in RetrieveOutcomes(reader.seen, reader.ids) :
        reader' = [reader EXCEPT !.pc = "done", !.seen = {},
                        !.result = IF reader.kind = "scroll"
                                   THEN SortRecords(points) ELSE points]
    /\ UNCHANGED <<locks, cluster, wal, wal_lock, queue, capacity, segments, handler,
                   applied_log, fired, pc, call, optimizer, search_in>>

RetrieveNext == RetrieveCall \/ ReadSegment \/ RetrieveFinish \/ ReadReset

\* ---------------------------------------------- fixtures: build_test_holder
\* the ids the test segments are defined over: 1..5 and 11..15 are written by
\* the fixture, 6 is an id it never writes
FixtureIds == {1, 2, 3, 4, 5, 6, 11, 12, 13, 14, 15}
empty_segment == [p \in FixtureIds |-> Absent]

\* segment.upsert_point(op_num, point_id, &vec) and (a vector is written as
\* the number whose decimal digits are its four components: 1011 is
\* [1.0, 0.0, 1.0, 1.0])
\* segment.set_payload(op_num, point_id, &payload_key, payload)
upsert_point(op_num, point_id, vec) == [op_num |-> op_num, op |-> Upsert({point_id}, vec)]
set_payload(op_num, point_id, payload) ==
    [op_num |-> op_num, op |-> SetPayloadTo({point_id}, payload)]

\* the calls of a fixture applied to a segment, in order
RECURSIVE SegmentRun(_, _)
SegmentRun(pts, calls) ==
    IF calls = <<>> THEN pts
    ELSE LET c == Head(calls)
             p == CHOOSE q \in c.op.ids : TRUE
         IN  SegmentRun([pts EXCEPT ![p] = SegmentApply(pts[p], c.op_num, c.op).rec],
                        Tail(calls))

build_segment_1 ==
    SegmentRun(empty_segment,
        << upsert_point(1, 1, 1011),
           upsert_point(2, 2, 1010),
           upsert_point(3, 3, 1111),
           upsert_point(4, 4, 1101),
           upsert_point(5, 5, 1000),
           set_payload(6, 1, "red"),
           set_payload(6, 2, "red"),
           set_payload(6, 3, "blue"),
           set_payload(6, 4, "red,blue"),
           set_payload(6, 5, "red,blue") >>)

build_segment_2 ==
    SegmentRun(empty_segment,
        << upsert_point(7, 4, 1101),
           upsert_point(8, 5, 1000),
           upsert_point(11, 11, 1111),
           upsert_point(12, 12, 1110),
           upsert_point(13, 13, 1011),
           upsert_point(14, 14, 1001),
           upsert_point(15, 15, 1100) >>)

\* holder.add(segment1); holder.add(segment2)
build_test_holder ==
    [members |-> {1, 2},
     seg |-> [sid \in SegIds |->
                IF sid = 1 THEN Segment(build_segment_1, "Plain", TRUE)
                ELSE IF sid = 2 THEN Segment(build_segment_2, "Plain", TRUE)
                ELSE Segment(empty_segment, "Plain", TRUE)],
     proxy |-> [sid \in SegIds |-> NoProxy],
     failed_operation |-> {},
     optimizer_errors |-> FALSE]

\* retrieve requests against the test holder
InitFixture ==
    /\ wal = <<>>
    /\ wal_lock = NoCaller
    /\ queue = <<>>
    /\ capacity = 1
    /\ segments = build_test_holder
    /\ handler = Idle
    /\ applied_log = <<>>
    /\ fired = {}
    /\ pc = [c \in Callers |-> "idle"]
    /\ call = [c \in Callers |-> NoCall]
    /\ reader = NoRead
    /\ optimizer = "idle"
    /\ search_in = NoSearch
    /\ locks = NoLocks
    /\ cluster = NoCluster

SpecFixture == InitFixture /\ [][RetrieveNext]_vars

\* ==================================================================== C13
RetrieveDone == reader.pc = "done" /\ reader.kind = "retrieve_ids"
Copies(p) ==
    { MemberRead(segments, sid, p) :
        sid \in { m \in segments.members : MemberRead(segments, m, p).present } }

Requested == { reader.ids[i] : i \in 1..Len(reader.ids) }
ReturnedAt(p) == { i \in 1..Len(reader.result) : reader.result[i].id = p }
\* every record answers a requested id and is that id's copy with the highest
\* version
RetrieveHighest ==
    RetrieveDone =>
        \A i \in 1..Len(reader.result) :
            /\ reader.result[i].id \in Requested
            /\ \E c \in Copies(reader.result[i].id) :
                    reader.result[i] = Record(reader.result[i].id, c)
            /\ \A c \in Copies(reader.result[i].id) :
                    c.version <= reader.result[i].version

Mentions(p) == { i \in 1..Len(reader.ids) : reader.ids[i] = p }
\* an id some segment holds appears in the result
RetrieveFound ==
    RetrieveDone => \A p \in Requested : Copies(p) # {} => ReturnedAt(p) # {}

NumPoints(pts) == Cardinality({ p \in DOMAIN pts : pts[p].present })

\* segment.info() of an Original segment
SegmentInfo(sg) ==
    [segment_type |-> sg.segment_type,
     num_vectors |-> NumPoints(sg.points),
     num_points |-> NumPoints(sg.points)]

\* ProxySegment::info(): the wrapped segment's counts minus deleted_points plus
\* write_segment's, with segment_type Special
ProxyInfo(wrapped, px) ==
    [segment_type |-> "Special",
     num_vectors |-> NumPoints(wrapped.points) - Cardinality(px.deleted) + NumPoints(px.write),
     num_points |-> NumPoints(wrapped.points) - Cardinality(px.deleted) + NumPoints(px.write)]

\* what counts as indexed of a segment whose info() is given
IndexedVectors(info) == IF info.segment_type = "Indexed" THEN info.num_vectors ELSE 0

\* one iteration of `for (_idx, segment) in segments.iter()`: segment_info and
\* what the iteration adds to indexed_vectors_count
InfoEntry(h, hd) ==
    IF hd[2]
    THEN [sid |-> hd[1],
          segment_info |-> ProxyInfo(h.seg[hd[1]], h.proxy[hd[1]]),
          indexed |-> IndexedVectors(SegmentInfo(h.seg[hd[1]]))]
    ELSE [sid |-> hd[1],
          segment_info |-> SegmentInfo(h.seg[hd[1]]),
          indexed |-> IndexedVectors(SegmentInfo(h.seg[hd[1]]))]

\* the counters after the loop
RECURSIVE InfoCounts(_)
InfoCounts(entries) ==
    IF entries = {}
    THEN [vectors_count |-> 0, indexed_vectors_count |-> 0, points_count |-> 0,
          segments_count |-> 0]
    ELSE LET e == CHOOSE x \in entries : TRUE
             t == InfoCounts(entries \ {e})
         IN  [vectors_count |-> t.vectors_count + e.segment_info.num_vectors,
              indexed_vectors_count |-> t.indexed_vectors_count + e.indexed,
              points_count |-> t.points_count + e.segment_info.num_points,
              segments_count |-> t.segments_count + 1]

\* (mutant) a Special segment turns a Red status back to Yellow
InfoStatusYellowLast(entries, failed_operation, optimizer_errors) ==
    IF \E e \in entries : e.segment_info.segment_type = "Special" THEN "Yellow"
    ELSE IF failed_operation # {} \/ optimizer_errors THEN "Red"
    ELSE "Green"
\* status: Green, Yellow on a Special segment, then Red on a failed operation
\* or an optimizer error
InfoStatus(entries, failed_operation, optimizer_errors) ==
    IF failed_operation # {} \/ optimizer_errors THEN "Red"
    ELSE IF \E e \in entries : e.segment_info.segment_type = "Special" THEN "Yellow"
    ELSE "Green"

OptimizersStatus(optimizer_errors) == IF optimizer_errors THEN "Error" ELSE "Ok"

CollectionInfo(entries, h) ==
    [status |-> InfoStatus(entries, h.failed_operation, h.optimizer_errors),
     optimizer_status |-> OptimizersStatus(h.optimizer_errors),
     vectors_count |-> InfoCounts(entries).vectors_count,
     indexed_vectors_count |-> InfoCounts(entries).indexed_vectors_count,
     points_count |-> InfoCounts(entries).points_count,
     segments_count |-> InfoCounts(entries).segments_count]

\* let segments = self.segments().read(): the read lock is kept to the end
InfoCall ==
    /\ reader.pc = "idle"
    /\ HolderReadable
    /\ reader' = [NoRead EXCEPT !.pc = "scanning", !.kind = "info",
                                !.handles = Snapshot(segments),
                                !.todo = Snapshot(segments)]
    /\ UNCHANGED <<locks, cluster, wal, wal_lock, queue, capacity, segments, handler,
                   applied_log, fired, pc, call, optimizer, search_in>>

\* one segment of the loop, under that segment's read lock
InfoSegment ==
    /\ reader.pc = "scanning" /\ reader.kind = "info"
    /\ \E hd \in reader.todo :
        reader' = [reader EXCEPT !.todo = @ \ {hd},
                                 !.seen = @ \cup {InfoEntry(segments, hd)}]
    /\ UNCHANGED <<locks, cluster, wal, wal_lock, queue, capacity, segments, handler,
                   applied_log, fired, pc, call, optimizer, search_in>>

\* after the loop: failed_operation, optimizer_errors, Ok(CollectionInfo {..})
InfoReturn ==
    /\ reader.pc = "scanning" /\ reader.kind = "info"
    /\ reader.todo = {}
    /\ reader' = [reader EXCEPT !.pc = "done",
                                !.result = CollectionInfo(reader.seen, segments)]
    /\ UNCHANGED <<locks, cluster, wal, wal_lock, queue, capacity, segments, handler,
                   applied_log, fired, pc, call, optimizer, search_in>>

InfoNext == InfoCall \/ InfoSegment \/ InfoReturn \/ ReadReset

\* the optimizer fails before it wraps a segment: the error is recorded on the
\* holder
OptimizerFail ==
    /\ optimizer = "idle"
    /\ ~HolderReadLocked
    /\ segments' = [segments EXCEPT !.optimizer_errors = TRUE]
    /\ optimizer' = "failed"
    /\ UNCHANGED <<locks, cluster, wal, wal_lock, queue, capacity, handler, applied_log,
                   fired, pc, call, reader, search_in>>

\* a shard whose first segment is Plain or already Indexed (not appendable)
InitInfo ==
    /\ wal = InitWal
    /\ wal_lock = NoCaller
    /\ queue = <<>>
    /\ capacity = 1
    /\ \E t \in {"Plain", "Indexed"} :
        segments = [InitHolder EXCEPT !.seg[1].segment_type = t,
                                      !.seg[1].appendable = (t = "Plain")]
    /\ handler = Idle
    /\ applied_log = <<1>>
    /\ fired = {}
    /\ pc = [c \in Callers |-> "idle"]
    /\ call = [c \in Callers |-> NoCall]
    /\ reader = NoRead
    /\ optimizer = "idle"
    /\ search_in = NoSearch
    /\ locks = NoLocks
    /\ cluster = NoCluster

NextInfo == SingleUpdateNext \/ OptimizerNext \/ OptimizerFail \/ InfoNext
SpecInfo == InitInfo /\ [][NextInfo]_vars

\* ==================================================================== C12
InfoDone == reader.pc = "done" /\ reader.kind = "info"
ReportsSpecial == \E e \in reader.seen : e.segment_info.segment_type = "Special"

\* C12: the status info() returns is Red exactly when the holder has a failed
\* operation or an optimizer error; otherwise Yellow exactly when a segment
\* reported segment_type Special, which is what a proxy reports and only a
\* proxy; otherwise Green; optimizer_status is Error exactly when an optimizer
\* error is recorded.
C12_InfoStatus ==
    [][ (reader.pc = "scanning" /\ reader'.pc = "done" /\ reader.kind = "info") =>
            LET res == reader'.result
                red == segments.failed_operation # {} \/ segments.optimizer_errors
            IN  /\ res.status \in {"Red", "Yellow", "Green"}
                /\ res.status = "Red" <=> red
                /\ res.status = "Yellow" <=> (~red /\ ReportsSpecial)
                /\ res.status = "Green" <=> (~red /\ ~ReportsSpecial)
                /\ ReportsSpecial <=> (\E hd \in reader.handles : hd[2])
                /\ res.optimizer_status = "Error" <=> segments.optimizer_errors
                /\ res.optimizer_status \in {"Error", "Ok"}
      ]_vars

\* info() returned Red for a holder with a failed operation although one of
\* its segments is a proxy
C12_Witness ==
    /\ InfoDone
    /\ reader.result.status = "Red"
    /\ reader.result.optimizer_status = "Ok"
    /\ ReportsSpecial

\* ==================================================================== C19
\* C19 as stated: in every result of info(), indexed_vectors_count is at most
\* vectors_count.
C19_IndexedAtMostVectors ==
    InfoDone => reader.result.indexed_vectors_count <= reader.result.vectors_count

\* ---------------------------------------- LocalShard::scroll_by and count
\* a payload as the set of its keywords; a filter names one keyword
Keywords(payload) ==
    IF payload = "none" THEN {}
    ELSE IF payload = "red,blue" THEN {"red", "blue"}
    ELSE {payload}
Matches(rec, filter) ==
    rec.present /\ (filter = "none" \/ filter \in Keywords(rec.payload))

\* the ids of a set in ascending order
RECURSIVE Ascending(_)
Ascending(S) ==
    IF S = {} THEN <<>> ELSE <<Min(S)>> \o Ascending(S \ {Min(S)})

\* segment.read_filtered(offset, Some(limit), filter): the first `limit`
\* matching ids at or after offset, in id order (offset 0: no offset)
ReadFiltered(pts, offset, limit, filter) ==
    Take(Ascending({ p \in DOMAIN pts : p >= offset /\ Matches(pts[p], filter) }), limit)

\* all the ids the segments gave, one list after the other (flat_map)
RECURSIVE FlatMap(_)
FlatMap(lists) ==
    IF lists = {} THEN <<>>
    ELSE LET l == CHOOSE x \in lists : \A y \in lists : x[1] <= y[1]
         IN  l[2] \o FlatMap(lists \ {l})

\* .sorted()
RECURSIVE Sorted(_)
Sorted(seq) ==
    IF seq = <<>> THEN <<>>
    ELSE LET i == CHOOSE k \in 1..Len(seq) : \A j \in 1..Len(seq) : seq[k] <= seq[j]
         IN  <<seq[i]>> \o Sorted(SubSeq(seq, 1, i - 1) \o SubSeq(seq, i + 1, Len(seq)))

\* (mutant) equal neighbours are kept
NoDedup(seq) == seq
\* .dedup(): equal neighbours collapse to one
RECURSIVE Dedup(_)
Dedup(seq) ==
    IF Len(seq) < 2 THEN seq
    ELSE IF seq[1] = seq[2] THEN Dedup(Tail(seq))
    ELSE <<seq[1]>> \o Dedup(Tail(seq))

\* point_ids of scroll_by: .sorted().dedup().take(limit)
ScrollPointIds(lists, limit) == Take(Dedup(Sorted(FlatMap(lists))), limit)

\* LocalShard::read_filtered(filter).len(): the matching ids of all segments
\* are collected and counted; an id that two segments hold is in the
\* collection once if it is a set and twice if it is a list, and the code at
\* hand takes only its len(): both lengths are possible results
CountPoints(lists) == { Cardinality(Range(FlatMap(lists))), Len(FlatMap(lists)) }
\* estimate_cardinality(filter).exp: the sum of the segments' estimates, each
\* segment estimating its own matches
EstimateExp(lists) == Len(FlatMap(lists))

\* total_count of count(request): the values it can take
Count(lists, exact) == IF exact THEN CountPoints(lists) ELSE {EstimateExp(lists)}

\* a limit no scroll reaches
Unbounded == MaxLimit + Cardinality(HolderIds(segments))
Limits == (1..MaxLimit) \cup {Unbounded}
Filters == {"none", "red", "blue"}

\* scroll_by(offset, limit, .., filter): segments.read() is taken
ScrollCall ==
    /\ reader.pc = "idle"
    /\ HolderReadable
    /\ \E o \in {0} \cup HolderIds(segments), l \in Limits, f \in Filters :
        reader' = [NoRead EXCEPT !.pc = "scanning", !.kind = "scroll",
                        !.request = [offset |-> o, limit |-> l, filter |-> f, exact |-> TRUE],
                        !.handles = Snapshot(segments),
                        !.todo = Snapshot(segments), !.after = fired]
    /\ UNCHANGED <<locks, cluster, wal, wal_lock, queue, capacity, segments, handler,
                   applied_log, fired, pc, call, optimizer, search_in>>

\* count(request): LocalShard::read_filtered takes segments.read()
CountCall ==
    /\ reader.pc = "idle"
    /\ HolderReadable
    /\ \E f \in Filters, e \in BOOLEAN :
        reader' = [NoRead EXCEPT !.pc = "scanning", !.kind = "count",
                        !.request = [offset |-> 0, limit |-> Unbounded, filter |-> f,
                                     exact |-> e],
                        !.handles = Snapshot(segments),
                        !.todo = Snapshot(segments), !.after = fired]
    /\ UNCHANGED <<locks, cluster, wal, wal_lock, queue, capacity, segments, handler,
                   applied_log, fired, pc, call, optimizer, search_in>>

\* segment.get().read().read_filtered(..) of one segment, holder lock kept
ScanSegment ==
    /\ reader.pc = "scanning" /\ reader.kind \in {"scroll", "count"}
    /\ \E hd \in reader.todo :
        reader' = [reader EXCEPT !.todo = @ \ {hd},
                        !.seen = @ \cup {<<hd[1],
                            ReadFiltered(HandlePoints(segments, hd), reader.request.offset,
                                         reader.request.limit, reader.request.filter)>>}]
    /\ UNCHANGED <<locks, cluster, wal, wal_lock, queue, capacity, segments, handler,
                   applied_log, fired, pc, call, optimizer, search_in>>

\* point_ids is collected and the holder's read lock released
ScrollCollect ==
    /\ reader.pc = "scanning" /\ reader.kind = "scroll"
    /\ reader.todo = {}
    /\ reader' = [reader EXCEPT !.pc = "collected",
                        !.ids = ScrollPointIds(reader.seen, reader.request.limit),
                        !.seen = {}]
    /\ UNCHANGED <<locks, cluster, wal, wal_lock, queue, capacity, segments, handler,
                   applied_log, fired, pc, call, optimizer, search_in>>

\* SegmentsSearcher::retrieve(segments, &point_ids, ..) takes the holder's
\* read lock anew and snapshots the handles
ScrollRetrieve ==
    /\ reader.pc = "collected"
    /\ HolderReadable
    /\ reader' = [reader EXCEPT !.pc = "reading",
                        !.handles = Snapshot(segments),
                        !.todo = Snapshot(segments)]
    /\ UNCHANGED <<locks, cluster, wal, wal_lock, queue, capacity, segments, handler,
                   applied_log, fired, pc, call, optimizer, search_in>>

\* Ok(CountResult { count: total_count })
CountReturn ==
    /\ reader.pc = "scanning" /\ reader.kind = "count"
    /\ reader.todo = {}
    /\ \E total_count \in Count(reader.seen, reader.request.exact) :
        reader' = [reader EXCEPT !.pc = "done", !.seen = {}, !.result = total_count]
    /\ UNCHANGED <<locks, cluster, wal, wal_lock, queue, capacity, segments, handler,
                   applied_log, fired, pc, call, optimizer, search_in>>

ScanNext ==
    \/ ScrollCall \/ ScanSegment \/ ScrollCollect \/ ScrollRetrieve \/ ReadSegment
    \/ RetrieveFinish \/ CountCall \/ CountReturn \/ ReadReset

\* shard states to scan: the test holder, possibly with one segment wrapped in
\* a proxy, after up to two further operations
FixtureHead == Max({ build_segment_2[p].version : p \in FixtureIds })
FixtureOps ==
    { Delete({4}), Delete({1, 11}), Upsert({3, 5}, 0),
      SetPayloadTo({2, 13}, "blue") }
ScanHolders ==
    LET h0 == {build_test_holder} \cup { ProxyOver(build_test_holder, sid) : sid \in {1, 2} }
        h1 == h0 \cup { ApplyIds(h, FixtureHead + 1, op, op.ids) : h \in h0, op \in FixtureOps }
    IN  h1 \cup { ApplyIds(h, FixtureHead + 2, op, op.ids) : h \in h1, op \in FixtureOps }

InitScan ==
    /\ wal = <<>>
    /\ wal_lock = NoCaller
    /\ queue = <<>>
    /\ capacity = 1
    /\ segments \in ScanHolders
    /\ handler = Idle
    /\ applied_log = <<>>
    /\ fired = {}
    /\ pc = [c \in Callers |-> "idle"]
    /\ call = [c \in Callers |-> NoCall]
    /\ reader = NoRead
    /\ optimizer = IF \E sid \in segments.members : segments.proxy[sid].active
                  THEN "proxying" ELSE "idle"
    /\ search_in = NoSearch
    /\ locks = NoLocks
    /\ cluster = NoCluster

\* the scans, and an optimizer that may wrap a segment in a proxy meanwhile
NextScan == ScanNext \/ ProxyWrap
SpecScan == InitScan /\ [][NextScan]_vars

\* --------------------------------------------------- what a scan can find
\* the ids at or after offset that match the filter in some segment
MatchingIds(filter, offset) ==
    { p \in HolderIds(segments) :
        /\ p >= offset
        /\ \E sid \in segments.members : Matches(MemberRead(segments, sid, p), filter) }
InTwoSegments(p) ==
    Cardinality({ sid \in segments.members : MemberRead(segments, sid, p).present }) >= 2

\* ------------------------------------------- updates and all four reads
\* a caller that updates with and without wait, the UpdateHandler, and a
\* reader that searches, retrieves, scrolls or counts meanwhile
Next == SingleUpdateNext \/ ReadNext \/ ScanNext
Spec == Init /\ [][Next]_vars

\* ===================================================================== C2
\* the state of point p after the first k operations of the WAL
VisibleAfter(k, p) == Visible(Replay(EmptyHolder, wal, 1, k), p)

\* the WAL prefixes a read begun after the fired callbacks may show
Prefixes == Max(reader.after)..Len(wal)

\* what the finished search or retrieve shows for point p
ResultView(p) ==
    IF reader.kind = "retrieve" THEN reader.result[p]
    ELSE LET hit == { i \in 1..Len(reader.result) : reader.result[i].id = p }
         IN  IF hit = {} THEN Absent
             ELSE LET sp == reader.result[Min(hit)]
                  IN  Point(sp.version, sp.score, "none")

SameView(kind, a, b) ==
    IF kind = "retrieve" THEN a = b
    ELSE a.present = b.present /\ a.version = b.version /\ a.vec = b.vec

\* a scroll: a returned record is the point's state after some prefix; a point
\* the scroll did not return, though its id list had room for it, is before
\* the offset or does not match the filter after some prefix
ScrollReflects ==
    \A p \in PointIds :
        LET hit == { i \in 1..Len(reader.result) : reader.result[i].id = p }
        IN  IF hit # {}
            THEN \A i \in hit : \E k \in Prefixes :
                    reader.result[i] = Record(p, VisibleAfter(k, p))
                    /\ VisibleAfter(k, p).present
            ELSE Len(reader.ids) < reader.request.limit =>
                    \/ p < reader.request.offset
                    \/ \E k \in Prefixes :
                        ~Matches(VisibleAfter(k, p), reader.request.filter)

\* a count: the number of points that match the filter, each taken after
\* some prefix
CountReflects ==
    \E k \in [PointIds -> Prefixes] :
        reader.result =
            Cardinality({ p \in PointIds :
                            Matches(VisibleAfter(k[p], p), reader.request.filter) })

ScrollDone == reader.pc = "done" /\ reader.kind = "scroll"
ScrollIds == { reader.result[i].id : i \in 1..Len(reader.result) }

\* C16: scroll_by returns records in strictly ascending PointId order, at most
\* limit of them, and their ids are exactly the limit smallest ids at or after
\* offset that match the filter in some segment of the shard.
C16_ScrollSmallestIds ==
    ScrollDone =>
        LET m == MatchingIds(reader.request.filter, reader.request.offset)
            limit == reader.request.limit
        IN  /\ \A i, j \in 1..Len(reader.result) :
                    i < j => reader.result[i].id < reader.result[j].id
            /\ Len(reader.result) <= limit
            /\ ScrollIds \subseteq m
            /\ Len(reader.result) = (IF Cardinality(m) < limit THEN Cardinality(m) ELSE limit)
            /\ \A p \in ScrollIds, q \in m \ ScrollIds : p < q

\* a scroll from offset 4 with limit 2 returns ids 4 and 5, each held by two
\* segments, and leaves larger matching ids out
C16_Witness ==
    /\ ScrollDone
    /\ reader.request.offset = 4 /\ reader.request.limit = 2
    /\ ScrollIds = {4, 5}
    /\ InTwoSegments(4) /\ InTwoSegments(5)
    /\ Cardinality(MatchingIds(reader.request.filter, 4)) > 2

\* ==================================================================== C14
WalFailed == \E c \in Callers : call[c].status = "WalError"

\* C14 as stated: once the WAL write of an update has failed, that operation
\* is not acknowledged and no later update is admitted: nothing more is
\* written to the WAL or sent to the UpdateHandler (the model has no recovery).
C14_NoAdmissionAfterWalFailure ==
    [][ WalFailed => (wal' = wal /\ Len(queue') <= Len(queue)) ]_vars

\* ==================================================================== C15
\* C15: every operation written to the WAL is eventually completely applied
\* by the UpdateHandler, whatever its caller does after the write.
C15_WrittenIsEventuallyApplied ==
    \A n \in 1..MaxOps : (Len(wal) >= n) ~> (n \in Applied)

\* the caller of a waited update has cancelled its wait while the
\* UpdateHandler works on the operation, and every point has been applied
C15_Witness ==
    /\ handler.op_num # 0
    /\ handler.todo = {}
    /\ handler.sender \in Callers
    /\ pc[handler.sender] = "idle"
    /\ handler.op_num \in 1..Len(wal)

\* ==================================================================== C17
\* C17: the step in which the WAL write of caller c fails returns the error
\* to c with no operation_id, leaves the WAL, the queue, the UpdateHandler and
\* the segments as they were and frees the one permit c held; a caller that
\* got the error holds neither permit nor callback, and every signal in the
\* queue belongs to an operation the WAL holds.
C17_WalErrorLeavesNoTrace ==
    [][ \A c \in Callers :
            /\ (pc[c] = "write" /\ pc'[c] = "done") =>
                    /\ call'[c].status = "WalError"
                    /\ call'[c].operation_id = 0
                    /\ wal' = wal /\ queue' = queue /\ handler' = handler
                    /\ segments' = segments /\ applied_log' = applied_log
                    /\ call[c].permit /\ ~call'[c].permit
                    /\ Len(queue') + Permits' = Len(queue) + Permits - 1
                    /\ wal_lock = c /\ wal_lock' = NoCaller
            /\ call'[c].status = "WalError" =>
                    /\ pc'[c] = "done"
                    /\ ~call'[c].permit /\ call'[c].callback = "none"
            /\ \A i \in 1..Len(queue') :
                    /\ queue'[i].op_num \in 1..Len(wal')
                    /\ wal'[queue'[i].op_num] = queue'[i].operation
      ]_vars

\* a caller got the WAL error and, on a queue of capacity 1, another caller
\* holds the permit the failed call gave back
C17_Witness ==
    \E c, d \in Callers :
        /\ capacity = 1
        /\ pc[c] = "done" /\ call[c].status = "WalError"
        /\ pc[d] = "write" /\ call[d].permit

\* --------------------------------------------- cluster_api.rs: remove_peer
Peers == 1..NumPeers
RemovePeer(peer_id) == [op |-> "RemovePeer", peer_id |-> peer_id]

\* a cluster: which peers hold shards, and whether this node runs with
\* consensus (dispatcher.consensus_state() is Some)
InitCluster ==
    /\ wal = InitWal
    /\ wal_lock = NoCaller
    /\ queue = <<>>
    /\ capacity = 1
    /\ segments = InitHolder
    /\ handler = Idle
    /\ applied_log = <<1>>
    /\ fired = {}
    /\ pc = [c \in Callers |-> "idle"]
    /\ call = [c \in Callers |-> NoCall]
    /\ reader = NoRead
    /\ optimizer = "idle"
    /\ search_in = NoSearch
    /\ locks = NoLocks
    /\ \E sh \in [Peers -> BOOLEAN], d \in BOOLEAN :
        cluster = [pc |-> "idle", peer_id |-> 0, has_shards |-> sh, distributed |-> d,
                   proposed |-> <<>>, response |-> "none", requests |-> 0]

\* DELETE /cluster/peer/{peer_id}
RemovePeerCall ==
    /\ cluster.pc = "idle"
    /\ cluster.requests < MaxRequests
    /\ \E p \in Peers :
        cluster' = [cluster EXCEPT !.pc = "check", !.peer_id = p, !.response = "none",
                                   !.requests = @ + 1]
    /\ UNCHANGED <<locks, wal, wal_lock, queue, capacity, segments, handler, applied_log,
                   fired, pc, call, reader, optimizer, search_in>>

\* if dispatcher.peer_has_shards(peer_id).await { return BadRequest }
PeerHasShards ==
    /\ cluster.pc = "check"
    /\ cluster' = IF cluster.has_shards[cluster.peer_id]
                  THEN [cluster EXCEPT !.pc = "done", !.response = "BadRequest"]
                  ELSE [cluster EXCEPT !.pc = "propose"]
    /\ UNCHANGED <<locks, wal, wal_lock, queue, capacity, segments, handler, applied_log,
                   fired, pc, call, reader, optimizer, search_in>>

\* match dispatcher.consensus_state(): Some => propose RemovePeer(peer_id),
\* None => BadRequest
ProposeRemovePeer ==
    /\ cluster.pc = "propose"
    /\ cluster' = IF cluster.distributed
                  THEN [cluster EXCEPT !.pc = "await",
                                       !.proposed = Append(@, RemovePeer(cluster.peer_id))]
                  ELSE [cluster EXCEPT !.pc = "done", !.response = "BadRequest"]
    /\ UNCHANGED <<locks, wal, wal_lock, queue, capacity, segments, handler, applied_log,
                   fired, pc, call, reader, optimizer, search_in>>

\* propose_consensus_op_with_await(..).await comes back with its Result
ConsensusAnswer ==
    /\ cluster.pc = "await"
    /\ \E r \in {"Ok", "ServiceError"} :
        cluster' = [cluster EXCEPT !.pc = "done", !.response = r]
    /\ UNCHANGED <<locks, wal, wal_lock, queue, capacity, segments, handler, applied_log,
                   fired, pc, call, reader, optimizer, search_in>>

\* process_response(response, timing)
RemovePeerReturn ==
    /\ cluster.pc = "done"
    /\ cluster' = [cluster EXCEPT !.pc = "idle"]
    /\ UNCHANGED <<locks, wal, wal_lock, queue, capacity, segments, handler, applied_log,
                   fired, pc, call, reader, optimizer, search_in>>

\* the rest of the cluster: a shard is placed on a peer, or a peer's last shard
\* leaves it
PlaceShard ==
    /\ \E p \in Peers :
        /\ ~cluster.has_shards[p]
        /\ cluster' = [cluster EXCEPT !.has_shards[p] = TRUE]
    /\ UNCHANGED <<locks, wal, wal_lock, queue, capacity, segments, handler, applied_log,
                   fired, pc, call, reader, optimizer, search_in>>

DropShards ==
    /\ \E p \in Peers :
        /\ cluster.has_shards[p]
        /\ cluster' = [cluster EXCEPT !.has_shards[p] = FALSE]
    /\ UNCHANGED <<locks, wal, wal_lock, queue, capacity, segments, handler, applied_log,
                   fired, pc, call, reader, optimizer, search_in>>

NextCluster ==
    \/ RemovePeerCall \/ PeerHasShards \/ ProposeRemovePeer \/ ConsensusAnswer
    \/ RemovePeerReturn
    \/ PlaceShard \/ DropShards
SpecCluster == InitCluster /\ [][NextCluster]_vars

\* ==================================================================== C20
\* C20 as stated: a RemovePeer(peer_id) is proposed only for the requested
\* peer, only on a distributed deployment and only while that peer holds no
\* shards; a request for a peer with shards, or on a deployment that is not
\* distributed, ends with BadRequest and proposes nothing; only otherwise is
\* exactly one RemovePeer(peer_id) proposed. Shards may be placed at any
\* moment.
C20_RemovePeerNeverWithShards ==
    [][ /\ cluster'.proposed # cluster.proposed =>
            /\ ~cluster'.has_shards[cluster.peer_id]
            /\ cluster.distributed
            /\ cluster'.proposed = Append(cluster.proposed, RemovePeer(cluster.peer_id))
        /\ (cluster.pc \in {"check", "propose"} /\ cluster'.pc # cluster.pc
                /\ (cluster.has_shards[cluster.peer_id] \/ ~cluster.distributed)) =>
            \/ cluster'.pc = "propose" /\ ~cluster.has_shards[cluster.peer_id]
            \/ /\ cluster'.pc = "done" /\ cluster'.response = "BadRequest"
               /\ cluster'.proposed = cluster.proposed
        /\ (cluster.pc = "await" /\ cluster'.pc = "done") =>
            cluster'.proposed = cluster.proposed
      ]_vars

\* ---------------------------------------------------------- lock discipline
\* The tasks that take the SegmentHolder lock and the segment locks, each
\* written as the list of lock operations it performs; a lock is a
\* reader/writer lock on which a waiting writer holds back new readers.
Procs == {"applier", "info", "scroll", "search", "optimizer"}
HolderLock == <<"holder", 0>>
SegmentLock(sid) == <<"segment", sid>>
ProxyLock(sid) == <<"proxy", sid>>
LockIds ==
    {HolderLock} \cup { SegmentLock(sid) : sid \in SegIds }
                 \cup { ProxyLock(sid) : sid \in SegIds }

Rd(l) == [do |-> "read", lock |-> l]
Wr(l) == [do |-> "write", lock |-> l]
Un(l) == [do |-> "unlock", lock |-> l]
Do(what) == [do |-> what, lock |-> HolderLock]

\* a read through a handle: the segment's lock, or the proxy's and inside it
\* the wrapped segment's
ReadVia(hd) ==
    IF hd[2]
    THEN << Rd(ProxyLock(hd[1])), Rd(SegmentLock(hd[1])),
            Un(SegmentLock(hd[1])), Un(ProxyLock(hd[1])) >>
    ELSE << Rd(SegmentLock(hd[1])), Un(SegmentLock(hd[1])) >>

\* a write through a handle: the segment's write lock, or the proxy's write
\* lock and inside it a look into the wrapped segment
WriteVia(hd) ==
    IF hd[2]
    THEN << Wr(ProxyLock(hd[1])), Rd(SegmentLock(hd[1])),
            Un(SegmentLock(hd[1])), Un(ProxyLock(hd[1])) >>
    ELSE << Wr(SegmentLock(hd[1])), Un(SegmentLock(hd[1])) >>

\* the handles of a snapshot read one after the other
RECURSIVE Visit(_)
Visit(handles) ==
    IF handles = {} THEN <<>>
    ELSE LET hd == CHOOSE x \in handles : \A y \in handles : x[1] <= y[1]
         IN  ReadVia(hd) \o Visit(handles \ {hd})

\* (mutant) info takes the holder's read lock again while it holds it
InfoProgramRelock ==
    << Rd(HolderLock), Rd(HolderLock), Do("iter"), Un(HolderLock), Un(HolderLock) >>
\* info: segments().read() kept over the loop that reads every segment
InfoProgram == << Rd(HolderLock), Do("iter"), Un(HolderLock) >>
\* scroll_by: the same for the ids, then SegmentsSearcher::retrieve
ScrollProgram ==
    << Rd(HolderLock), Do("iter"), Un(HolderLock), Rd(HolderLock), Do("snapshot") >>
\* search / retrieve: clone the handles under the holder lock, then read
SearchProgram == << Rd(HolderLock), Do("snapshot") >>
\* the UpdateHandler applying one point operation
ApplierProgram == << Rd(HolderLock), Do("apply"), Un(HolderLock) >>
\* the optimizer: proxy(old_id), the build from the wrapped segment, swap
OptimizerProgram ==
    << Wr(HolderLock), Do("wrap"), Un(HolderLock), Do("build"),
       Wr(HolderLock), Do("merge"), Do("swap"), Un(HolderLock) >>

Program(p) ==
    CASE p = "applier" -> ApplierProgram
      [] p = "info" -> InfoProgram
      [] p = "scroll" -> ScrollProgram
      [] p = "search" -> SearchProgram
      [] p = "optimizer" -> OptimizerProgram

Held(p) == { l \in LockIds : p \in locks.readers[l] \/ locks.writer[l] = p }
NextOp(p) == Head(locks.todo[p])
Proxied(h) == { sid \in h.members : h.proxy[sid].active }

InitLocks ==
    /\ wal = InitWal
    /\ wal_lock = NoCaller
    /\ queue = <<>>
    /\ capacity = 1
    /\ segments = InitHolder
    /\ handler = Idle
    /\ applied_log = <<1>>
    /\ fired = {}
    /\ pc = [c \in Callers |-> "idle"]
    /\ call = [c \in Callers |-> NoCall]
    /\ reader = NoRead
    /\ optimizer = "idle"
    /\ search_in = NoSearch
    /\ cluster = NoCluster
    /\ locks = [readers |-> [l \in LockIds |-> {}],
                writer |-> [l \in LockIds |-> "none"],
                waiting |-> [l \in LockIds |-> {}],
                todo |-> [p \in Procs |-> Program(p)]]

\* read(): granted when no writer holds the lock and none waits for it
LockRead(p) ==
    /\ locks.todo[p] # <<>> /\ NextOp(p).do = "read"
    /\ locks.writer[NextOp(p).lock] = "none"
    /\ locks.waiting[NextOp(p).lock] = {}
    /\ locks' = [locks EXCEPT !.readers[NextOp(p).lock] = @ \cup {p},
                              !.todo[p] = Tail(@)]
    /\ UNCHANGED <<cluster, wal, wal_lock, queue, capacity, segments, handler, applied_log,
                   fired, pc, call, reader, optimizer, search_in>>

\* write(): the writer queues up ...
LockWriteRequest(p) ==
    /\ locks.todo[p] # <<>> /\ NextOp(p).do = "write"
    /\ p \notin locks.waiting[NextOp(p).lock]
    /\ locks' = [locks EXCEPT !.waiting[NextOp(p).lock] = @ \cup {p}]
    /\ UNCHANGED <<cluster, wal, wal_lock, queue, capacity, segments, handler, applied_log,
                   fired, pc, call, reader, optimizer, search_in>>

\* ... and gets the lock when nobody holds it
LockWriteAcquire(p) ==
    /\ locks.todo[p] # <<>> /\ NextOp(p).do = "write"
    /\ p \in locks.waiting[NextOp(p).lock]
    /\ locks.writer[NextOp(p).lock] = "none"
    /\ locks.readers[NextOp(p).lock] = {}
    /\ locks' = [locks EXCEPT !.writer[NextOp(p).lock] = p,
                              !.waiting[NextOp(p).lock] = @ \ {p},
                              !.todo[p] = Tail(@)]
    /\ UNCHANGED <<cluster, wal, wal_lock, queue, capacity, segments, handler, applied_log,
                   fired, pc, call, reader, optimizer, search_in>>

\* a guard is dropped
LockRelease(p) ==
    /\ locks.todo[p] # <<>> /\ NextOp(p).do = "unlock"
    /\ locks' = [locks EXCEPT !.readers[NextOp(p).lock] = @ \ {p},
                              !.writer[NextOp(p).lock] = IF @ = p THEN "none" ELSE @,
                              !.todo[p] = Tail(@)]
    /\ UNCHANGED <<cluster, wal, wal_lock, queue, capacity, segments, handler, applied_log,
                   fired, pc, call, reader, optimizer, search_in>>

\* the task looks at the holder it has locked and goes on with the segments
\* it found there
Expand(p) ==
    /\ locks.todo[p] # <<>>
    /\ \/ /\ NextOp(p).do = "iter"
          /\ locks' = [locks EXCEPT !.todo[p] = Visit(Snapshot(segments)) \o Tail(@)]
       \/ /\ NextOp(p).do = "snapshot"
          /\ locks' = [locks EXCEPT !.todo[p] =
                            <<Un(HolderLock)>> \o Visit(Snapshot(segments)) \o Tail(@)]
       \/ /\ NextOp(p).do = "apply"
          /\ \E hd \in Snapshot(segments) :
                locks' = [locks EXCEPT !.todo[p] = WriteVia(hd) \o Tail(@)]
       \/ /\ NextOp(p).do = "build"
          /\ \E sid \in Proxied(segments) :
                locks' = [locks EXCEPT !.todo[p] =
                            << Rd(SegmentLock(sid)), Un(SegmentLock(sid)) >> \o Tail(@)]
       \/ /\ NextOp(p).do = "merge"
          /\ \E sid \in Proxied(segments) :
                locks' = [locks EXCEPT !.todo[p] =
                            << Rd(ProxyLock(sid)), Un(ProxyLock(sid)) >> \o Tail(@)]
    /\ UNCHANGED <<cluster, wal, wal_lock, queue, capacity, segments, handler, applied_log,
                   fired, pc, call, reader, optimizer, search_in>>

\* the optimizer changes the membership under the exclusive holder lock
HolderChange(p) ==
    /\ locks.todo[p] # <<>>
    /\ locks.writer[HolderLock] = p
    /\ \/ /\ NextOp(p).do = "wrap"
          /\ segments' = ProxyOver(segments, Target(segments))
       \/ /\ NextOp(p).do = "swap"
          /\ \E old \in Proxied(segments) :
                segments' = [segments EXCEPT
                                !.seg[FreshId] = BuildOptimized(segments, old),
                                !.members = (@ \ {old}) \cup {FreshId}]
    /\ locks' = [locks EXCEPT !.todo[p] = Tail(@)]
    /\ UNCHANGED <<cluster, wal, wal_lock, queue, capacity, handler, applied_log,
                   fired, pc, call, reader, optimizer, search_in>>

NextLocks ==
    \E p \in Procs :
        \/ LockRead(p) \/ LockWriteRequest(p) \/ LockWriteAcquire(p)
        \/ LockRelease(p) \/ Expand(p) \/ HolderChange(p)
SpecLocks == InitLocks /\ [][NextLocks]_vars

\* ==================================================================== C18
Acquires(p) == locks.todo[p] # <<>> /\ NextOp(p).do \in {"read", "write"}

\* C18: a task that asks for a lock does not hold that lock; it asks for the
\* holder lock holding nothing, for a proxy's lock holding at most the holder
\* lock, and for a segment's lock holding at most the holder lock and that
\* segment's proxy; and as long as a task has work left some task can take a
\* step.
C18_LockOrderNoDeadlock ==
    /\ \A p \in Procs : Acquires(p) =>
            LET l == NextOp(p).lock IN
            /\ l \notin Held(p)
            /\ l = HolderLock => Held(p) = {}
            /\ l[1] = "proxy" => Held(p) \subseteq {HolderLock}
            /\ l[1] = "segment" => Held(p) \subseteq {HolderLock, ProxyLock(l[2])}
    /\ (\E p \in Procs : locks.todo[p] # <<>>) => ENABLED NextLocks

\* the optimizer waits for the exclusive holder lock to swap, info holds the
\* holder's read lock and a proxy's, and scroll_by is held back behind the
\* waiting writer
C18_Witness ==
    /\ "optimizer" \in locks.waiting[HolderLock]
    /\ "info" \in locks.readers[HolderLock]
    /\ \E sid \in SegIds : "info" \in locks.readers[ProxyLock(sid)]
    /\ Acquires("scroll") /\ NextOp("scroll").lock = HolderLock

====
